---- MODULE Spec2Model ----
(***************************************************************************)
(* Two maintenance scripts of the repository, as state machines.           *)
(*                                                                         *)
(*   Function-Stripper  src/website-audit-tool/safe-refactor.py  main()    *)
(*   Field-Injector     src/analysis-engine/add-source-fields.py           *)
(*                                                                         *)
(* A source line of analyzer.js is the TLA+ string of its text (without    *)
(* the trailing newline).  The scripts look at a line only through         *)
(* substring tests, re.match, str.replace and a character scan for braces; *)
(* LineTable holds, for every literal line the model uses, the outcome of  *)
(* exactly those tests on that text.  Indices i, j, start_line, skip_until *)
(* are the 0-based indices of the Python code; At(ls, i) is ls[i] there.   *)
(***************************************************************************)
EXTENDS Integers, Sequences, FiniteSets, TLC

VARIABLES
    pc,              \* position of main() in safe-refactor.py
    file,            \* analyzer.js on disk, a sequence of lines
    original_count,  \* len(lines) right after reading
    lines,           \* the stage's input (the list being iterated)
    new_lines,       \* the stage's output under construction
    removed_lines,   \* the audit list
    skip_until,      \* exclusive end index of the range being skipped, or -1
    i,               \* loop index of the named-function removal loop
    stage,           \* which named-function removal stage runs (2..6)
    scen,            \* how the input was built, and the environment of the
                     \* run: whether analyzer.js exists, can be read and
                     \* written, what stdout can encode, which analyzer
                     \* file fails
    ipc,             \* position of add-source-fields.py
    run,             \* which invocation of add-source-fields.py this is
    k,               \* index into analyzers of the spec being processed
    files,           \* the eight analyzer files on disk
    files0,          \* the files as they were before the first invocation
    report           \* what the invocations printed, in order

stripVars == <<pc, file, original_count, lines, new_lines, removed_lines,
               skip_until, i, stage, scen>>
injectVars == <<ipc, run, k, files, files0, report>>
vars == <<pc, file, original_count, lines, new_lines, removed_lines,
          skip_until, i, stage, scen, ipc, run, k, files, files0, report>>

----------------------------------------------------------------------------
(* Literal lines and what the script's tests see in them.                  *)
(*   braces   the '{' and '}' characters of the line, in order             *)
(*   has      the needles n of the script with  n in line                  *)
(*   matches  the patterns p of Step 10 with  re.match(r'\s*' + p, line)   *)
(*   renamed  the line after str.replace of the lead-${leadGrade} template *)
(*            by the grade-${websiteGrade} one                             *)
(* The needle lead-${leadGrade} stands for the template literal with its   *)
(* two enclosing backquotes, which a TLA+ string cannot hold.              *)
(* "" is a blank line of the file (the element '\n' of lines).  Blanked is *)
(* the element '' that Step 7 stores: no text and no newline.              *)

\* A string no line of a file has as its text: it holds a newline.
Blanked == "(blanked)\n"

LineTable ==
    ("  const x = 1;" :>
        [braces |-> <<>>, has |-> {},
         matches |-> {}, renamed |-> "  const x = 1;"])
 @@ ("}" :>
        [braces |-> <<"}">>, has |-> {},
         matches |-> {}, renamed |-> "}"])
 @@ ("  if (ready) {" :>
        [braces |-> <<"{">>, has |-> {},
         matches |-> {}, renamed |-> "  if (ready) {"])
 @@ ("/** doc */" :>
        [braces |-> <<>>, has |-> {"/**", "*", "* ", "*/"},
         matches |-> {}, renamed |-> "/** doc */"])
 @@ ("  total = a*b;" :>
        [braces |-> <<>>, has |-> {"*"},
         matches |-> {}, renamed |-> "  total = a*b;"])
 @@ ("function extractContactInfo(x) {" :>
        [braces |-> <<"{">>, has |-> {"function extractContactInfo", "extractContactInfo("},
         matches |-> {}, renamed |-> "function extractContactInfo(x) {"])
 @@ ("function extractContactInfo(x) { return x; }" :>
        [braces |-> <<"{", "}">>, has |-> {"function extractContactInfo", "extractContactInfo("},
         matches |-> {}, renamed |-> "function extractContactInfo(x) { return x; }"])
 @@ ("}; function extractContactInfo(x) {" :>
        [braces |-> <<"}", "{">>, has |-> {"function extractContactInfo", "extractContactInfo("},
         matches |-> {}, renamed |-> "}; function extractContactInfo(x) {"])
 @@ ("async function humanizeEmailWithAI(x) {" :>
        [braces |-> <<"{">>, has |-> {"async function humanizeEmailWithAI"},
         matches |-> {}, renamed |-> "async function humanizeEmailWithAI(x) {"])
 @@ ("async function humanizeEmailWithAI(x) { return x; }" :>
        [braces |-> <<"{", "}">>, has |-> {"async function humanizeEmailWithAI"},
         matches |-> {}, renamed |-> "async function humanizeEmailWithAI(x) { return x; }"])
 @@ ("}; async function humanizeEmailWithAI(x) {" :>
        [braces |-> <<"}", "{">>, has |-> {"async function humanizeEmailWithAI"},
         matches |-> {}, renamed |-> "}; async function humanizeEmailWithAI(x) {"])
 @@ ("async function generateCritiqueReasoning(x) {" :>
        [braces |-> <<"{">>, has |-> {"function generateCritiqueReasoning"},
         matches |-> {}, renamed |-> "async function generateCritiqueReasoning(x) {"])
 @@ ("async function generateCritiqueReasoning(x) { return x; }" :>
        [braces |-> <<"{", "}">>, has |-> {"function generateCritiqueReasoning"},
         matches |-> {}, renamed |-> "async function generateCritiqueReasoning(x) { return x; }"])
 @@ ("}; async function generateCritiqueReasoning(x) {" :>
        [braces |-> <<"}", "{">>, has |-> {"function generateCritiqueReasoning"},
         matches |-> {}, renamed |-> "}; async function generateCritiqueReasoning(x) {"])
 @@ ("async function qaReviewEmail(x) {" :>
        [braces |-> <<"{">>, has |-> {"function qaReviewEmail"},
         matches |-> {}, renamed |-> "async function qaReviewEmail(x) {"])
 @@ ("async function qaReviewEmail(x) { return x; }" :>
        [braces |-> <<"{", "}">>, has |-> {"function qaReviewEmail"},
         matches |-> {}, renamed |-> "async function qaReviewEmail(x) { return x; }"])
 @@ ("}; async function qaReviewEmail(x) {" :>
        [braces |-> <<"}", "{">>, has |-> {"function qaReviewEmail"},
         matches |-> {}, renamed |-> "}; async function qaReviewEmail(x) {"])
 @@ ("async function generateEmail(x) {" :>
        [braces |-> <<"{">>, has |-> {"function generateEmail"},
         matches |-> {}, renamed |-> "async function generateEmail(x) {"])
 @@ ("async function generateEmail(x) { return x; }" :>
        [braces |-> <<"{", "}">>, has |-> {"function generateEmail"},
         matches |-> {}, renamed |-> "async function generateEmail(x) { return x; }"])
 @@ ("}; async function generateEmail(x) {" :>
        [braces |-> <<"}", "{">>, has |-> {"function generateEmail"},
         matches |-> {}, renamed |-> "}; async function generateEmail(x) {"])
 @@ ("// 3. Save email content" :>
        [braces |-> <<>>, has |-> {"// 3. Save email content"},
         matches |-> {}, renamed |-> "// 3. Save email content"])
 @@ ("// 3b. Save critique reasoning" :>
        [braces |-> <<>>, has |-> {"// 3b. Save critique reasoning"},
         matches |-> {}, renamed |-> "// 3b. Save critique reasoning"])
 @@ ("// 3c. Save QA review" :>
        [braces |-> <<>>, has |-> {"// 3c. Save QA review"},
         matches |-> {}, renamed |-> "// 3c. Save QA review"])
 @@ ("// 4. Save client info" :>
        [braces |-> <<>>, has |-> {"// 4. Save client info"},
         matches |-> {}, renamed |-> "// 4. Save client info"])
 @@ ("// 3. Save client info" :>
        [braces |-> <<>>, has |-> {"// 3. Save client info"},
         matches |-> {}, renamed |-> "// 3. Save client info"])
 @@ ("// Step 10: Generate email" :>
        [braces |-> <<>>, has |-> {"Step 10: Generate email"},
         matches |-> {}, renamed |-> "// Step 10: Generate email"])
 @@ ("// Add result" :>
        [braces |-> <<>>, has |-> {"// Add result"},
         matches |-> {}, renamed |-> "// Add result"])
 @@ ("const result = {" :>
        [braces |-> <<"{">>, has |-> {"const result = {"},
         matches |-> {}, renamed |-> "const result = {"])
 @@ ("// 3. Save email content // 4. Save client info" :>
        [braces |-> <<>>, has |-> {"// 3. Save email content", "// 4. Save client info"},
         matches |-> {}, renamed |-> "// 3. Save email content // 4. Save client info"])
 @@ ("import { createDraft } from './modules/drafts-gmail.js';" :>
        [braces |-> <<"{", "}">>, has |-> {"createDraft", "drafts-gmail"},
         matches |-> {}, renamed |-> "import { createDraft } from './modules/drafts-gmail.js';"])
 @@ ("import { sanitizeHumanizedEmail, replacePlaceholders } from './modules/email-sanitizer.js';" :>
        [braces |-> <<"{", "}">>, has |-> {"sanitizeHumanizedEmail", "email-sanitizer"},
         matches |-> {}, renamed |-> "import { sanitizeHumanizedEmail, replacePlaceholders } from './modules/email-sanitizer.js';"])
 @@ ("    email: email," :>
        [braces |-> <<>>, has |-> {},
         matches |-> {"email: email,"}, renamed |-> "    email: email,"])
 @@ ("  const leadGrade = result.emailQA.grade;" :>
        [braces |-> <<>>, has |-> {"const leadGrade = result.emailQA", "result."},
         matches |-> {}, renamed |-> "  const leadGrade = result.emailQA.grade;"])
 @@ ("    draft: draft," :>
        [braces |-> <<>>, has |-> {},
         matches |-> {"draft:"}, renamed |-> "    draft: draft,"])
 @@ (Blanked :>
        [braces |-> <<>>, has |-> {},
         matches |-> {}, renamed |-> Blanked])
 @@ ("" :>
        [braces |-> <<>>, has |-> {},
         matches |-> {}, renamed |-> ""])

LineSet == DOMAIN LineTable

At(ls, n) == ls[n + 1]

Braces(line) == LineTable[line].braces

Has(line, needle) == needle \in LineTable[line].has

ReMatch(pattern, line) == pattern \in LineTable[line].matches

Renamed(line) == LineTable[line].renamed

----------------------------------------------------------------------------
(* Step 1: import-line removal.                                            *)

IsDraftImport(line) == Has(line, "createDraft") /\ Has(line, "drafts-gmail")

IsSanitizerImport(line) ==
    Has(line, "sanitizeHumanizedEmail") /\ Has(line, "email-sanitizer")

RECURSIVE Step1From(_, _, _, _)
Step1From(ls, n, out, audit) ==
    IF n >= Len(ls) THEN [new_lines |-> out, removed_lines |-> audit]
    ELSE IF IsDraftImport(At(ls, n))
         THEN Step1From(ls, n + 1, out,
                        Append(audit, [line |-> n + 1, desc |-> <<"createDraft import">>]))
    ELSE IF IsSanitizerImport(At(ls, n))
         THEN Step1From(ls, n + 1, out,
                        Append(audit, [line |-> n + 1, desc |-> <<"email-sanitizer import">>]))
    ELSE Step1From(ls, n + 1, Append(out, At(ls, n)), audit)

----------------------------------------------------------------------------
(* Steps 2-6: named-function removal.                                      *)

FnStages == 2..6

FuncName(st) ==
    CASE st = 2 -> "extractContactInfo"
      [] st = 3 -> "humanizeEmailWithAI"
      [] st = 4 -> "generateCritiqueReasoning"
      [] st = 5 -> "qaReviewEmail"
      [] st = 6 -> "generateEmail"

DeclNeedle(st) ==
    CASE st = 2 -> "function extractContactInfo"
      [] st = 3 -> "async function humanizeEmailWithAI"
      [] st = 4 -> "function generateCritiqueReasoning"
      [] st = 5 -> "function qaReviewEmail"
      [] st = 6 -> "function generateEmail"

\* IsDecl with the stage's name lost: the declaration of any target matches.
IsDeclOfAnyTarget(line, st) == \E other \in FnStages : Has(line, DeclNeedle(other))

IsDecl(line, st) == Has(line, DeclNeedle(st))

\* The test of the walk back over the documentation block.
IsCommentLine(line, st) ==
    IF st = 2
    THEN Has(line, "/**") \/ Has(line, "*")
    ELSE Has(line, "/**") \/ Has(line, "* ") \/ Has(line, "*/")

\* The character loop over one line: bs are the braces of the line, p the next
\* one to read.  The test "started and brace_count == 0" follows every
\* character; between two braces it sees what it saw after the first.
RECURSIVE ScanChars(_, _, _, _)
ScanChars(bs, p, brace_count, started) ==
    IF p > Len(bs)
    THEN [hit |-> FALSE, brace_count |-> brace_count, started |-> started]
    ELSE LET c == IF bs[p] = "{" THEN brace_count + 1 ELSE brace_count - 1
             s == started \/ bs[p] = "{"
         IN  IF s /\ c = 0
             THEN [hit |-> TRUE, brace_count |-> c, started |-> s]
             ELSE ScanChars(bs, p + 1, c, s)

\* for j in range(i, len(lines)): the j whose character loop set skip_until,
\* or -1.  After each line the loop stops when skip_until > 0, and skip_until
\* still holds what an earlier removal of the same stage left in it (stale).
RECURSIVE ScanLines(_, _, _, _, _)
ScanLines(ls, j, brace_count, started, stale) ==
    IF j >= Len(ls) THEN -1
    ELSE LET r == ScanChars(Braces(At(ls, j)), 1, brace_count, started)
         IN  IF r.hit THEN j
             ELSE IF stale > 0 THEN -1
             ELSE ScanLines(ls, j + 1, r.brace_count, r.started, stale)

FindEnd(ls, n, stale) == ScanLines(ls, n, 0, FALSE, stale)

RECURSIVE WalkBack(_, _, _)
WalkBack(ls, start_line, st) ==
    IF start_line > 0 /\ IsCommentLine(At(ls, start_line - 1), st)
    THEN WalkBack(ls, start_line - 1, st)
    ELSE start_line

\* (start_line+1, f'<name> function ({j-start_line+1} lines)')
FnRecord(st, start_line, j) ==
    [line |-> start_line + 1,
     desc |-> <<FuncName(st), " function (", j - start_line + 1, " lines)">>]

----------------------------------------------------------------------------
(* Step 7: folder-structure rename, in place.                              *)

Step7Line(line) ==
    IF Has(line, "const leadGrade = result.emailQA") THEN Blanked
    ELSE IF Has(line, "lead-${leadGrade}") THEN Renamed(line)
    ELSE line

----------------------------------------------------------------------------
(* Steps 8 and 9: region removal by marker pairs.                          *)

IsStart8(line) ==
    \/ Has(line, "// 3. Save email content")
    \/ Has(line, "// 3b. Save critique reasoning")
    \/ Has(line, "// 3c. Save QA review")

IsEnd8(line) ==
    Has(line, "// 4. Save client info") \/ Has(line, "// 3. Save client info")

IsStart9(line) == Has(line, "Step 10: Generate email")

IsEnd9(line) == Has(line, "// Add result") \/ Has(line, "const result = {")

\* Step8From with the end-marker line dropped like the rest of its region.
RECURSIVE Step8FromDroppingEnd(_, _, _, _)
Step8FromDroppingEnd(ls, n, skip_mode, out) ==
    IF n >= Len(ls) THEN out
    ELSE LET line == At(ls, n)
             entered == skip_mode \/ IsStart8(line)
         IN  IF IsEnd8(line)
             THEN Step8FromDroppingEnd(ls, n + 1, FALSE,
                                       IF entered THEN out ELSE Append(out, line))
             ELSE IF ~entered
             THEN Step8FromDroppingEnd(ls, n + 1, entered, Append(out, line))
             ELSE Step8FromDroppingEnd(ls, n + 1, entered, out)

RECURSIVE Step8From(_, _, _, _)
Step8From(ls, n, skip_mode, out) ==
    IF n >= Len(ls) THEN out
    ELSE LET line == At(ls, n)
             entered == skip_mode \/ IsStart8(line)
         IN  IF IsEnd8(line)
             THEN Step8From(ls, n + 1, FALSE, Append(out, line))
             ELSE IF ~entered
             THEN Step8From(ls, n + 1, entered, Append(out, line))
             ELSE Step8From(ls, n + 1, entered, out)

\* Step9From with the end-marker line dropped like the rest of its region.
RECURSIVE Step9FromDroppingEnd(_, _, _, _)
Step9FromDroppingEnd(ls, n, skip_mode, out) ==
    IF n >= Len(ls) THEN out
    ELSE LET line == At(ls, n)
             entered == skip_mode \/ IsStart9(line)
             left == IF entered /\ IsEnd9(line) THEN FALSE ELSE entered
         IN  IF ~entered
             THEN Step9FromDroppingEnd(ls, n + 1, left, Append(out, line))
             ELSE Step9FromDroppingEnd(ls, n + 1, left, out)

RECURSIVE Step9From(_, _, _, _)
Step9From(ls, n, skip_mode, out) ==
    IF n >= Len(ls) THEN out
    ELSE LET line == At(ls, n)
             entered == skip_mode \/ IsStart9(line)
             left == IF entered /\ IsEnd9(line) THEN FALSE ELSE entered
         IN  IF ~left
             THEN Step9From(ls, n + 1, left, Append(out, line))
             ELSE Step9From(ls, n + 1, left, out)

----------------------------------------------------------------------------
(* Step 10: field-line removal.                                            *)

Step10Drops(line) ==
    \/ ReMatch("email: email,", line)
    \/ ReMatch("emailQA:", line)
    \/ ReMatch("draft:", line)
    \/ Has(line, "critiqueReasoning:") /\ Has(line, "result.")
    \/ Has(line, "leadGrade: leadGrade,")
    \/ Has(line, "extractContactInfo(")
    \/ ReMatch("emailWriting:", line)
    \/ ReMatch("critiqueReasoning:", line) /\ Has(line, "true")
    \/ ReMatch("qaReview:", line) /\ Has(line, "true")
    \/ ReMatch("cheapModel:", line)

Step10Keeps(line) == ~Step10Drops(line)

----------------------------------------------------------------------------
(* main() of safe-refactor.py.                                             *)

\* open('analyzer.js', 'r') raises FileNotFoundError; nothing was done.
\* What the encoding of stdout makes of the script's prints.  Of Python's
\* codecs, 90 (ascii, cp1252, ...) cannot encode the check mark that line
\* 77 prints first; 6 (shift_jis_2004, ...) encode it but not the box
\* line of line 239; the others (utf-8, ...) encode every character.
Stdouts == {"utf-8", "shift_jis_2004", "ascii"}

EncodesCheckMark(stdout) == stdout \in {"utf-8", "shift_jis_2004"}

EncodesBoxLine(stdout) == stdout = "utf-8"

ReadMissing ==
    /\ pc = "read"
    /\ ~scen.exists
    /\ pc' = "failed"
    /\ UNCHANGED <<file, original_count, lines, new_lines, removed_lines,
                   skip_until, i, stage, scen, injectVars>>

\* analyzer.js exists, but open(..., 'r') raises PermissionError or
\* f.readlines() raises UnicodeDecodeError; nothing was done.
ReadDenied ==
    /\ pc = "read"
    /\ scen.exists
    /\ ~scen.readable
    /\ pc' = "failed"
    /\ UNCHANGED <<file, original_count, lines, new_lines, removed_lines,
                   skip_until, i, stage, scen, injectVars>>

ReadFile ==
    /\ pc = "read"
    /\ scen.exists
    /\ scen.readable
    /\ lines' = file
    /\ original_count' = Len(file)
    /\ removed_lines' = <<>>
    /\ pc' = "step1"
    /\ UNCHANGED <<file, new_lines, skip_until, i, stage, scen, injectVars>>

Step1Loop ==
    /\ pc = "step1"
    /\ LET r == Step1From(lines, 0, <<>>, removed_lines)
       IN  /\ new_lines' = r.new_lines
           /\ removed_lines' = r.removed_lines
    /\ pc' = "step1_done"
    /\ UNCHANGED <<file, original_count, lines, skip_until, i, stage, scen, injectVars>>

\* lines = new_lines, then the next loop's new_lines = [] and skip_until = -1
Step1Assign ==
    /\ pc = "step1_done"
    /\ lines' = new_lines
    /\ new_lines' = <<>>
    /\ skip_until' = -1
    /\ i' = 0
    /\ stage' = 2
    /\ pc' = "fn"
    /\ UNCHANGED <<file, original_count, removed_lines, scen, injectVars>>

\* One pass of "for i, line in enumerate(lines)" in a named-function stage.
FnIter ==
    /\ pc = "fn"
    /\ i < Len(lines)
    /\ LET line == At(lines, i)
           j == FindEnd(lines, i, skip_until)
       IN  IF skip_until > 0 /\ i < skip_until
           THEN UNCHANGED <<new_lines, skip_until, removed_lines>>
           ELSE IF IsDecl(line, stage)
           THEN /\ new_lines' = new_lines
                /\ skip_until' = IF j >= 0 THEN j + 1 ELSE skip_until
                /\ removed_lines' =
                       IF j >= 0
                       THEN Append(removed_lines,
                                   FnRecord(stage, WalkBack(lines, i, stage), j))
                       ELSE removed_lines
           ELSE /\ new_lines' = Append(new_lines, line)
                /\ UNCHANGED <<skip_until, removed_lines>>
    /\ i' = i + 1
    /\ UNCHANGED <<pc, file, original_count, lines, stage, scen, injectVars>>

\* lines = new_lines at the end of a named-function stage, then the
\* stage's print.  Before another stage, new_lines = [] and skip_until = -1
\* open it; after the last one nothing is reset: new_lines stays the list
\* that lines now names, skip_until and i keep their values.
FnAssign ==
    /\ pc = "fn"
    /\ i = Len(lines)
    /\ stage = 2 => EncodesCheckMark(scen.stdout)
    /\ lines' = new_lines
    /\ IF stage < 6
       THEN /\ new_lines' = <<>>
            /\ skip_until' = -1
            /\ i' = 0
            /\ stage' = stage + 1
            /\ pc' = "fn"
       ELSE /\ pc' = "step7"
            /\ UNCHANGED <<new_lines, skip_until, i, stage>>
    /\ UNCHANGED <<file, original_count, removed_lines, scen, injectVars>>

\* The first print of a check mark, after Step 2's lines = new_lines, on a
\* stdout that cannot encode it: UnicodeEncodeError, analyzer.js not written.
PrintFails ==
    /\ pc = "fn"
    /\ i = Len(lines)
    /\ stage = 2
    /\ ~EncodesCheckMark(scen.stdout)
    /\ lines' = new_lines
    /\ pc' = "failed"
    /\ UNCHANGED <<file, original_count, new_lines, removed_lines, skip_until,
                   i, stage, scen, injectVars>>

\* lines[i] = ... in place; new_lines is the same list object since the
\* last stage's lines = new_lines, so it changes with lines.
Step7 ==
    /\ pc = "step7"
    /\ lines' = [n \in 1..Len(lines) |-> Step7Line(lines[n])]
    /\ new_lines' = lines'
    /\ pc' = "step8"
    /\ UNCHANGED <<file, original_count, removed_lines, skip_until,
                   i, stage, scen, injectVars>>

Step8Loop ==
    /\ pc = "step8"
    /\ new_lines' = Step8From(lines, 0, FALSE, <<>>)
    /\ pc' = "step8_done"
    /\ UNCHANGED <<file, original_count, lines, removed_lines, skip_until,
                   i, stage, scen, injectVars>>

Step8Assign ==
    /\ pc = "step8_done"
    /\ lines' = new_lines
    /\ new_lines' = <<>>
    /\ pc' = "step9"
    /\ UNCHANGED <<file, original_count, removed_lines, skip_until, i, stage, scen, injectVars>>

Step9Loop ==
    /\ pc = "step9"
    /\ new_lines' = Step9From(lines, 0, FALSE, <<>>)
    /\ pc' = "step9_done"
    /\ UNCHANGED <<file, original_count, lines, removed_lines, skip_until,
                   i, stage, scen, injectVars>>

Step9Assign ==
    /\ pc = "step9_done"
    /\ lines' = new_lines
    /\ new_lines' = <<>>
    /\ pc' = "step10"
    /\ UNCHANGED <<file, original_count, removed_lines, skip_until, i, stage, scen, injectVars>>

Step10Loop ==
    /\ pc = "step10"
    /\ new_lines' = SelectSeq(lines, Step10Keeps)
    /\ pc' = "step10_done"
    /\ UNCHANGED <<file, original_count, lines, removed_lines, skip_until,
                   i, stage, scen, injectVars>>

Step10Assign ==
    /\ pc = "step10_done"
    /\ lines' = new_lines
    /\ pc' = "write"
    /\ UNCHANGED <<file, original_count, new_lines, removed_lines, skip_until,
                   i, stage, scen, injectVars>>

\* An element of lines that Step 7 set to '' adds nothing to the file; a
\* blank line adds its newline.
NonEmpty(line) == line # Blanked

\* What f.writelines(lines) puts into the file: the elements concatenated.
Written(ls) == SelectSeq(ls, NonEmpty)

\* What a write that raised part-way may have left of a line: some but not
\* all of the characters of its text and newline.  A string no line of a
\* file has as its text: it holds a newline.
PartOfLine == "(part of the line)\n"

\* The files a write of w that raises part-way can leave: open(..., 'w')
\* has emptied the file, then some of the lines of w were written, and
\* possibly a part of the next one (a blank line, a lone newline, has no
\* part).
CutShort(w) ==
    UNION {{SubSeq(w, 1, p)}
           \cup (IF w[p + 1] # "" THEN {Append(SubSeq(w, 1, p), PartOfLine)}
                 ELSE {}) : p \in 0..(Len(w) - 1)}

\* open('analyzer.js', 'w') raises PermissionError: the file keeps the
\* lines that were read.
WriteDenied ==
    /\ pc = "write"
    /\ scen.write = "denied"
    /\ pc' = "failed"
    /\ UNCHANGED <<file, original_count, lines, new_lines, removed_lines,
                   skip_until, i, stage, scen, injectVars>>

\* open('analyzer.js', 'w') has emptied the file and f.writelines or the
\* flush on leaving the with block raises (a full disk, an I/O error).
WriteCutShort ==
    /\ pc = "write"
    /\ scen.write = "cut"
    /\ file' \in CutShort(Written(lines))
    /\ pc' = "failed"
    /\ UNCHANGED <<original_count, lines, new_lines, removed_lines, skip_until,
                   i, stage, scen, injectVars>>

\* f.writelines(lines) completes.  A write of no line at all has nothing
\* to be cut short at.
WriteFile ==
    /\ pc = "write"
    /\ scen.write = "ok" \/ (scen.write = "cut" /\ Written(lines) = <<>>)
    /\ file' = Written(lines)
    /\ pc' = "summary"
    /\ UNCHANGED <<original_count, lines, new_lines, removed_lines, skip_until,
                   i, stage, scen, injectVars>>

\* The summary, after analyzer.js was written: the print of the box line
\* raises UnicodeEncodeError on a stdout that cannot encode it, and
\* removed/original_count raises ZeroDivisionError when the file that was
\* read had no lines.
Summary ==
    /\ pc = "summary"
    /\ pc' = IF ~EncodesBoxLine(scen.stdout) \/ original_count = 0
             THEN "failed" ELSE "done"
    /\ UNCHANGED <<file, original_count, lines, new_lines, removed_lines,
                   skip_until, i, stage, scen, injectVars>>

StripNext ==
    \/ ReadMissing
    \/ ReadDenied
    \/ ReadFile
    \/ Step1Loop
    \/ Step1Assign
    \/ FnIter
    \/ FnAssign
    \/ PrintFails
    \/ Step7
    \/ Step8Loop
    \/ Step8Assign
    \/ Step9Loop
    \/ Step9Assign
    \/ Step10Loop
    \/ Step10Assign
    \/ WriteDenied
    \/ WriteCutShort
    \/ WriteFile
    \/ Summary

----------------------------------------------------------------------------
(* add-source-fields.py.                                                   *)
(*                                                                         *)
(* The text of an analyzer file is a sequence of lines, each a record:     *)
(*   [kind |-> "open"]    "    issues.push({"                              *)
(*   [kind |-> "close"]   "    });"                                        *)
(*   [kind |-> "blank"]   ""                                               *)
(*   [kind |-> "field", name |-> n, quote |-> q, value |-> v, comma |-> c] *)
(*        six spaces, n, ": ", the value v between two quote characters q, *)
(*        and a comma when c; quote "backquote" is the template quote      *)
(*   [kind |-> "cut", of |-> l, past |-> b]                                *)
(*        what a write that raised part-way left of line l, the last line  *)
(*        of the file: some of its characters, past its closing quote or   *)
(*        brace when b, and no newline                                     *)
(* every other line ending in a newline.  On such text a regular expression of   *)
(* the script matches at a field line and runs over the whitespace that    *)
(* follows it (the newline, blank lines, the indentation of the next line) *)
(* up to the "}" that begins a close line.                                 *)

Analyzers ==
    << [filename |-> "analyzers/seo-analyzer.js",
        source |-> "seo-analyzer", source_type |-> "technical"],
       [filename |-> "analyzers/content-analyzer.js",
        source |-> "content-analyzer", source_type |-> "technical"],
       [filename |-> "analyzers/accessibility-analyzer.js",
        source |-> "accessibility-analyzer", source_type |-> "accessibility"],
       [filename |-> "analyzers/social-analyzer.js",
        source |-> "social-analyzer", source_type |-> "social"],
       [filename |-> "analyzers/desktop-visual-analyzer.js",
        source |-> "desktop-visual-analyzer", source_type |-> "visual"],
       [filename |-> "analyzers/mobile-visual-analyzer.js",
        source |-> "mobile-visual-analyzer", source_type |-> "visual"],
       [filename |-> "analyzers/unified-visual-analyzer.js",
        source |-> "unified-visual-analyzer", source_type |-> "visual"],
       [filename |-> "analyzers/unified-technical-analyzer.js",
        source |-> "unified-technical-analyzer", source_type |-> "technical"] >>

SpecIndices == 1..Len(Analyzers)

Field(name, quote, value, comma) ==
    [kind |-> "field", name |-> name, quote |-> quote, value |-> value,
     comma |-> comma]

\* The tests of the script are substring tests and unanchored regular
\* expressions: of a field's name they see how it ends.  <<n, e>> is here
\* when the name n ends with e; a name that ends with none of source,
\* priority, recommendation, technical_details is in no pair.
NameEndings ==
    {<<"source", "source">>, <<"data_source", "source">>,
     <<"priority", "priority">>, <<"fix_priority", "priority">>,
     <<"recommendation", "recommendation">>,
     <<"fix_recommendation", "recommendation">>,
     <<"technical_details", "technical_details">>}

EndsWith(name, ending) == <<name, ending>> \in NameEndings

\* The text  source: '<source>'  is in the line: a field whose name ends
\* with source, or what was written of one up to its closing quote.
HoldsSource(line, quote, source) ==
    LET f == IF line.kind = "cut" THEN line.of ELSE line
    IN  /\ line.kind = "field" \/ (line.kind = "cut" /\ line.past)
        /\ f.kind = "field"
        /\ EndsWith(f.name, "source")
        /\ f.quote = quote
        /\ f.value = source

\* AlreadyHasSource looking for the name between double quotes.
AlreadyHasSourceDoubleQuoted(content, source) ==
    \E p \in 1..Len(content) : HoldsSource(content[p], "\"", source)

\* f"source: '{source}'" in content
AlreadyHasSource(content, source) ==
    \E p \in 1..Len(content) : HoldsSource(content[p], "'", source)

\* The line begins with whitespace and a "}": a close line, or what was
\* written of one up to its brace.
BeginsWithBrace(line) ==
    \/ line.kind = "close"
    \/ line.kind = "cut" /\ line.of.kind = "close" /\ line.past

\* ([\s\n]*}) right after the closing quote of line p: nothing but
\* whitespace up to the brace of a close line.
RECURSIVE ClosesAfter(_, _)
ClosesAfter(content, p) ==
    IF p + 1 > Len(content) THEN FALSE
    ELSE IF content[p + 1].kind = "blank" THEN ClosesAfter(content, p + 1)
    ELSE BeginsWithBrace(content[p + 1])

\* priority:\s*['"](?:critical|high|medium|low)['"]
IsPriorityField(line) ==
    /\ line.kind = "field"
    /\ EndsWith(line.name, "priority")
    /\ line.quote \in {"'", "\""}
    /\ line.value \in {"critical", "high", "medium", "low"}

\* (?:recommendation|technical_details):\s*(?:['"].*?['"]|`.*?`)
IsLastFieldOfB(line) ==
    /\ line.kind = "field"
    /\ \/ EndsWith(line.name, "recommendation")
       \/ EndsWith(line.name, "technical_details")
    /\ line.quote \in {"'", "\"", "backquote"}

\* Inserted with the file's name written where the source name belongs.
InsertedWithFilename(line, spec) ==
    << [line EXCEPT !.comma = TRUE],
       Field("source", "'", spec.filename, TRUE),
       Field("source_type", "'", spec.source_type, FALSE) >>

\* The replacement: group 1, then  ,\n      source: '<source>',\n
\*       source_type: '<source_type>'  and group 2.
Inserted(line, spec) ==
    << [line EXCEPT !.comma = TRUE],
       Field("source", "'", spec.source, TRUE),
       Field("source_type", "'", spec.source_type, FALSE) >>

\* re.sub(pattern, replacement, content), every match replaced.
RECURSIVE SubA(_, _, _)
SubA(content, p, spec) ==
    IF p > Len(content) THEN <<>>
    ELSE IF /\ IsPriorityField(content[p])
            /\ ~content[p].comma
            /\ ClosesAfter(content, p)
    THEN Inserted(content[p], spec) \o SubA(content, p + 1, spec)
    ELSE <<content[p]>> \o SubA(content, p + 1, spec)

RECURSIVE SubB(_, _, _)
SubB(content, p, spec) ==
    IF p > Len(content) THEN <<>>
    ELSE IF /\ IsLastFieldOfB(content[p])
            /\ ~content[p].comma
            /\ ClosesAfter(content, p)
    THEN Inserted(content[p], spec) \o SubB(content, p + 1, spec)
    ELSE <<content[p]>> \o SubB(content, p + 1, spec)

\* updated_content, for a file that passed the already-present guard
UpdatedContent(content, spec) == SubB(SubA(content, 1, spec), 1, spec)

\* AfterError with the try around the whole loop: the exception ends it.
AfterErrorLeavingLoop(n) == Len(Analyzers) + 1

\* The position after a caught exception.
AfterError(n) == n + 1

Printed(outcome) == Append(report, [run |-> run, spec |-> k, outcome |-> outcome])

\* The environment makes the input and output of at most one file fail, the
\* file that scen names, at any access or at none.
MayFail(n) == scen.faulty = n

InLoop == ipc = "loop" /\ k \in SpecIndices

\* os.path.exists(filepath) is false
SkipMissing ==
    /\ InLoop
    /\ ~files[k].exists
    /\ report' = Printed("Skipped - file not found")
    /\ k' = k + 1
    /\ UNCHANGED <<ipc, run, files, files0, stripVars>>

\* open(filepath, 'r') or f.read() raises
ReadFails ==
    /\ InLoop
    /\ files[k].exists
    /\ MayFail(k)
    /\ report' = Printed("Error processing")
    /\ k' = AfterError(k)
    /\ UNCHANGED <<ipc, run, files, files0, stripVars>>

SkipAlreadyPresent ==
    /\ InLoop
    /\ files[k].exists
    /\ AlreadyHasSource(files[k].content, Analyzers[k].source)
    /\ report' = Printed("Skipped - already has source fields")
    /\ k' = k + 1
    /\ UNCHANGED <<ipc, run, files, files0, stripVars>>

Update ==
    /\ InLoop
    /\ files[k].exists
    /\ ~AlreadyHasSource(files[k].content, Analyzers[k].source)
    /\ UpdatedContent(files[k].content, Analyzers[k]) # files[k].content
    /\ files' = [files EXCEPT
                    ![k].content = UpdatedContent(files[k].content, Analyzers[k])]
    /\ report' = Printed("Updated - added source fields")
    /\ k' = k + 1
    /\ UNCHANGED <<ipc, run, files0, stripVars>>

\* What a write that raised part-way can leave of a line, when it left
\* some of it: a cut before or past the closing quote of a field, before
\* or past the brace of a close line, somewhere in an open line.  A blank
\* line, a lone newline, has no part.
Cuts(line) ==
    CASE line.kind \in {"field", "close"} ->
             {[kind |-> "cut", of |-> line, past |-> b] : b \in BOOLEAN}
      [] line.kind = "open" -> {[kind |-> "cut", of |-> line, past |-> FALSE]}
      [] OTHER -> {}

\* The texts a write of u that raises part-way can leave: open(..., 'w')
\* has emptied the file, then some of the lines of u were written, and
\* possibly a part of the next one.
CutShortContent(u) ==
    UNION {{SubSeq(u, 1, p)}
           \cup {Append(SubSeq(u, 1, p), c) : c \in Cuts(u[p + 1])} :
           p \in 0..(Len(u) - 1)}

\* open(filepath, 'w') raises and the file is as it was, or it has emptied
\* the file and f.write, or the flush on leaving the with block, raises
\* with a part of updated_content written.
WriteFails ==
    /\ InLoop
    /\ files[k].exists
    /\ MayFail(k)
    /\ ~AlreadyHasSource(files[k].content, Analyzers[k].source)
    /\ UpdatedContent(files[k].content, Analyzers[k]) # files[k].content
    /\ \E left \in {files[k].content}
                 \cup CutShortContent(UpdatedContent(files[k].content,
                                                     Analyzers[k])) :
           files' = [files EXCEPT ![k].content = left]
    /\ report' = Printed("Error processing")
    /\ k' = AfterError(k)
    /\ UNCHANGED <<ipc, run, files0, stripVars>>

NoChange ==
    /\ InLoop
    /\ files[k].exists
    /\ ~AlreadyHasSource(files[k].content, Analyzers[k].source)
    /\ UpdatedContent(files[k].content, Analyzers[k]) = files[k].content
    /\ report' = Printed("No changes needed")
    /\ k' = k + 1
    /\ UNCHANGED <<ipc, run, files, files0, stripVars>>

\* print('Done!')
Finish ==
    /\ ipc = "loop"
    /\ k = Len(Analyzers) + 1
    /\ report' = Append(report, [run |-> run, spec |-> 0, outcome |-> "Done!"])
    /\ ipc' = "done"
    /\ UNCHANGED <<run, k, files, files0, stripVars>>

\* The script is invoked a second time on the files the first run left.
RunAgain ==
    /\ ipc = "done"
    /\ run = 1
    /\ run' = 2
    /\ k' = 1
    /\ ipc' = "loop"
    /\ UNCHANGED <<files, files0, report, stripVars>>

InjectNext ==
    \/ SkipMissing
    \/ ReadFails
    \/ SkipAlreadyPresent
    \/ Update
    \/ WriteFails
    \/ NoChange
    \/ Finish
    \/ RunAgain

----------------------------------------------------------------------------
(* Inputs of safe-refactor.py.                                             *)

MaxFnLines == 4

MaxRegionLines == 4

MaxFaultLines == 2

SeqsUpTo(S, n) == UNION {[1..m -> S] : m \in 1..n}

DeclOpen(st) ==
    CASE st = 2 -> "function extractContactInfo(x) {"
      [] st = 3 -> "async function humanizeEmailWithAI(x) {"
      [] st = 4 -> "async function generateCritiqueReasoning(x) {"
      [] st = 5 -> "async function qaReviewEmail(x) {"
      [] st = 6 -> "async function generateEmail(x) {"

DeclOneLine(st) ==
    CASE st = 2 -> "function extractContactInfo(x) { return x; }"
      [] st = 3 -> "async function humanizeEmailWithAI(x) { return x; }"
      [] st = 4 -> "async function generateCritiqueReasoning(x) { return x; }"
      [] st = 5 -> "async function qaReviewEmail(x) { return x; }"
      [] st = 6 -> "async function generateEmail(x) { return x; }"

DeclAfterClose(st) ==
    CASE st = 2 -> "}; function extractContactInfo(x) {"
      [] st = 3 -> "}; async function humanizeEmailWithAI(x) {"
      [] st = 4 -> "}; async function generateCritiqueReasoning(x) {"
      [] st = 5 -> "}; async function qaReviewEmail(x) {"
      [] st = 6 -> "}; async function generateEmail(x) {"

\* Files around one target function: code lines, braces, comment lines and
\* three shapes of the declaration line.
FnAlphabet(st) ==
    {"  const x = 1;", "}", "  if (ready) {", "/** doc */", "  total = a*b;",
     DeclOpen(st), DeclOneLine(st), DeclAfterClose(st)}

IdleInject ==
    /\ ipc = "idle"
    /\ run = 0
    /\ k = 0
    /\ files = <<>>
    /\ files0 = <<>>
    /\ report = <<>>

\* The environment where nothing fails.
Nominal ==
    [exists |-> TRUE, readable |-> TRUE, write |-> "ok", stdout |-> "utf-8"]

\* The environments of a run: the one where nothing fails, and those with
\* one thing wrong: analyzer.js missing (no lines to read), not readable,
\* not writable, written only in part, or a stdout that cannot encode all
\* that is printed.
Environments(input) ==
    {[Nominal EXCEPT !.stdout = o] : o \in Stdouts}
    \cup {[Nominal EXCEPT !.write = w] : w \in {"denied", "cut"}}
    \cup {[Nominal EXCEPT !.readable = FALSE]}
    \cup (IF input = <<>> THEN {[Nominal EXCEPT !.exists = FALSE]} ELSE {})

\* What fails does not depend on the lines of the file: the generated
\* files meet the failing environments up to MaxFaultLines lines.
EnvironmentsUpTo(input, n) ==
    IF Len(input) <= n THEN Environments(input) ELSE {Nominal}

StripStart(input, how, e) ==
    /\ pc = "read"
    /\ file = input
    /\ original_count = 0
    /\ lines = <<>>
    /\ new_lines = <<>>
    /\ removed_lines = <<>>
    /\ skip_until = -1
    /\ i = 0
    /\ stage = 2
    /\ scen = [family |-> how.family, input |-> how.input,
               others |-> how.others,
               exists |-> e.exists, readable |-> e.readable,
               write |-> e.write, stdout |-> e.stdout]
    /\ IdleInject

InitFn ==
    \E st \in FnStages :
        \E input \in {<<>>} \cup SeqsUpTo(FnAlphabet(st), MaxFnLines) :
            \E e \in EnvironmentsUpTo(input, MaxFaultLines) :
                StripStart(input,
                           [family |-> "fn", input |-> input, others |-> <<>>], e)

\* Files of marker comments: every start and end marker of Steps 8 and 9,
\* a code line, a blank line, a line that holds a start and an end marker
\* of Step 8, and the line that Step 7 sets to ''.
RegionAlphabet ==
    {"  const x = 1;", "", "  const leadGrade = result.emailQA.grade;",
     "// 3. Save email content", "// 3b. Save critique reasoning",
     "// 3c. Save QA review", "// 4. Save client info", "// 3. Save client info",
     "// Step 10: Generate email", "// Add result", "const result = {",
     "// 3. Save email content // 4. Save client info"}

InitRegion ==
    \E input \in {<<>>} \cup SeqsUpTo(RegionAlphabet, MaxRegionLines) :
        \E e \in EnvironmentsUpTo(input, MaxFaultLines) :
            StripStart(input,
                       [family |-> "region", input |-> input, others |-> <<>>], e)

\* The end-to-end scenario: one import line first, then one target function,
\* one marked region and one field line as disjoint blocks in any order,
\* with other lines (code, a documentation comment, braces) around them.
ImportLines ==
    {"import { createDraft } from './modules/drafts-gmail.js';",
     "import { sanitizeHumanizedEmail, replacePlaceholders } from './modules/email-sanitizer.js';"}

FunctionBlock(st) == <<DeclOpen(st), "  if (ready) {", "}", "}">>

\* <<start marker, end marker>>
RegionMarkers ==
    {<<"// 3. Save email content", "// 4. Save client info">>,
     <<"// 3b. Save critique reasoning", "// 3. Save client info">>,
     <<"// Step 10: Generate email", "// Add result">>,
     <<"// Step 10: Generate email", "const result = {">>}

RegionInterior == <<"  const x = 1;", "  total = a*b;">>

FieldLine == "    email: email,"

Filler(p) ==
    CASE p = 1 -> "  const x = 1;"
      [] p = 2 -> "/** doc */"
      [] p = 3 -> "  total = a*b;"
      [] p = 4 -> "  if (ready) {"
      [] p = 5 -> "}"

BlockOrders ==
    {o \in [1..3 -> {"function", "region", "field"}] :
        \A a, b \in 1..3 : a # b => o[a] # o[b]}

Gap(p, present) == IF p \in present THEN <<Filler(p)>> ELSE <<>>

\* The lines of block b that the scenario expects to be removed, and the
\* lines of it that it expects to stay (a region's end marker).
BlockRemoved(b, st, m) ==
    CASE b = "function" -> FunctionBlock(st)
      [] b = "region" -> <<m[1]>> \o RegionInterior
      [] b = "field" -> <<FieldLine>>

BlockKept(b, m) == IF b = "region" THEN <<m[2]>> ELSE <<>>

ScenarioInput(imp, st, m, o, present) ==
    Gap(1, present) \o <<imp>>
    \o Gap(2, present) \o BlockRemoved(o[1], st, m) \o BlockKept(o[1], m)
    \o Gap(3, present) \o BlockRemoved(o[2], st, m) \o BlockKept(o[2], m)
    \o Gap(4, present) \o BlockRemoved(o[3], st, m) \o BlockKept(o[3], m)
    \o Gap(5, present)

ScenarioOthers(m, o, present) ==
    Gap(1, present)
    \o Gap(2, present) \o BlockKept(o[1], m)
    \o Gap(3, present) \o BlockKept(o[2], m)
    \o Gap(4, present) \o BlockKept(o[3], m)
    \o Gap(5, present)

InitScenario ==
    \/ \E e \in {env \in Environments(<<>>) : ~env.exists} :
           StripStart(<<>>,
                      [family |-> "scenario", input |-> <<>>, others |-> <<>>], e)
    \/ \E imp \in ImportLines, st \in FnStages, m \in RegionMarkers,
          o \in BlockOrders, middle \in SUBSET {2, 3, 4} :
           LET present == {1, 5} \cup middle
               input == ScenarioInput(imp, st, m, o, present)
           IN  \E e \in Environments(input) :
                   StripStart(input,
                              [family |-> "scenario", input |-> input,
                               others |-> ScenarioOthers(m, o, present)], e)

----------------------------------------------------------------------------
(* Inputs of add-source-fields.py.                                         *)

MaxContentLines == 3

IdleStrip ==
    /\ pc = "idle"
    /\ file = <<>>
    /\ original_count = 0
    /\ lines = <<>>
    /\ new_lines = <<>>
    /\ removed_lines = <<>>
    /\ skip_until = -1
    /\ i = 0
    /\ stage = 2

OpenLine == [kind |-> "open"]

CloseLine == [kind |-> "close"]

BlankLine == [kind |-> "blank"]

\* Lines of the file under study: a block's brackets, a blank line, a
\* priority field and a field whose name only ends with recommendation,
\* both without a comma after them, a source field of the file's own
\* analyzer, a field whose name only ends with source and holds that
\* analyzer's name, and a source field of another analyzer.
ContentAlphabet(n) ==
    {OpenLine, CloseLine, BlankLine,
     Field("priority", "'", "high", FALSE),
     Field("fix_recommendation", "\"", "Add alt text", FALSE),
     Field("source", "'", Analyzers[n].source, TRUE),
     Field("data_source", "'", Analyzers[n].source, TRUE),
     Field("source", "'", Analyzers[(n % Len(Analyzers)) + 1].source, TRUE)}

Contents(n) == {<<>>} \cup SeqsUpTo(ContentAlphabet(n), MaxContentLines)

\* The other seven files: a block that ends in a field whose name ends with
\* priority, one that ends in a template-quoted technical_details field,
\* one that already has its analyzer's fields, and one with nothing to
\* change.
Typical(n) ==
    CASE n % 4 = 1 -> <<OpenLine, Field("title", "'", "Missing title", TRUE),
                        Field(IF n = 1 THEN "priority" ELSE "fix_priority",
                              "'", "critical", FALSE), CloseLine>>
      [] n % 4 = 2 -> <<OpenLine, Field("priority", "'", "low", TRUE),
                        Field("technical_details", "backquote", "found none", FALSE),
                        BlankLine, CloseLine>>
      [] n % 4 = 3 -> <<OpenLine, Field("priority", "\"", "medium", TRUE),
                        Field("source", "'", Analyzers[n].source, TRUE),
                        Field("source_type", "'", Analyzers[n].source_type, FALSE),
                        CloseLine>>
      [] n % 4 = 0 -> <<OpenLine, Field("priority", "'", "urgent", FALSE), CloseLine>>

InitInject ==
    \E focus \in SpecIndices, faulty \in BOOLEAN :
        \E present \in BOOLEAN, content \in Contents(focus) :
            /\ present \/ content = <<>>
            /\ faulty => Len(content) <= MaxFaultLines
            /\ files = [n \in SpecIndices |->
                          IF n = focus
                          THEN [exists |-> present, content |-> content]
                          ELSE [exists |-> TRUE, content |-> Typical(n)]]
            /\ files0 = files
            /\ scen = [family |-> "inject", focus |-> focus,
                       faulty |-> IF faulty THEN focus ELSE 0]
            /\ ipc = "loop"
            /\ run = 1
            /\ k = 1
            /\ report = <<>>
            /\ IdleStrip

SpecInject == InitInject /\ [][InjectNext]_vars

SpecFn == InitFn /\ [][StripNext]_vars

SpecRegion == InitRegion /\ [][StripNext]_vars

SpecScenario == InitScenario /\ [][StripNext]_vars

----------------------------------------------------------------------------
(* Properties of the named-function removal stages.                        *)

\* The named-function loop has run over all of its input.
StageEnd == pc = "fn" /\ i = Len(lines)

\* 0-based indices of the lines that hold the declaration of stage st.
DeclIndices(ls, st) == {n \in 0..(Len(ls) - 1) : Has(At(ls, n), DeclNeedle(st))}

IsStageRecord(r) == r.desc[1] = FuncName(stage)

\* The audit records of the stage that is running.
StageRecords == SelectSeq(removed_lines, IsStageRecord)

\* ls without its 0-based index range [from, to].
Without(ls, from, to) == SubSeq(ls, 1, from) \o SubSeq(ls, to + 2, Len(ls))

\* The end line as the specification words it: the first line at or after
\* n where the running balance is zero after having been strictly positive.
RECURSIVE BalancedChars(_, _, _, _)
BalancedChars(bs, p, balance, positive) ==
    IF p > Len(bs)
    THEN [hit |-> FALSE, balance |-> balance, positive |-> positive]
    ELSE LET b == IF bs[p] = "{" THEN balance + 1 ELSE balance - 1
         IN  IF positive /\ b = 0
             THEN [hit |-> TRUE, balance |-> b, positive |-> positive]
             ELSE BalancedChars(bs, p + 1, b, positive \/ b > 0)

RECURSIVE BalancedLines(_, _, _, _)
BalancedLines(ls, j, balance, positive) ==
    IF j >= Len(ls) THEN -1
    ELSE LET r == BalancedChars(LineTable[At(ls, j)].braces, 1, balance, positive)
         IN  IF r.hit THEN j
             ELSE BalancedLines(ls, j + 1, r.balance, r.positive)

BalancedEnd(ls, n) == BalancedLines(ls, n, 0, FALSE)

\* C1: whenever a pass of the stage's loop scans from a declaration line i
\* and chooses an end line (it appends a record and sets skip_until to the
\* end line plus one), that end line is the first line j >= i at which the
\* running brace balance is zero after having been strictly positive.
C1_EndIsFirstBalancedLine ==
    [][(/\ pc = "fn"
        /\ i < Len(lines)
        /\ ~(skip_until > 0 /\ i < skip_until)
        /\ Has(At(lines, i), DeclNeedle(stage))
        /\ Len(removed_lines') > Len(removed_lines))
       => skip_until' = BalancedEnd(lines, i) + 1]_vars

\* C2: at the end of a stage whose input holds one declaration of the
\* target and that appended one record (start s, n lines), the output is the
\* input without the n lines from s on, and it is n lines shorter.
C2_RecordedRangeIsDeleted ==
    (StageEnd /\ Cardinality(DeclIndices(lines, stage)) = 1 /\ Len(StageRecords) = 1)
    => LET s == StageRecords[1].line - 1
           n == StageRecords[1].desc[3]
       IN  /\ new_lines = Without(lines, s, s + n - 1)
           /\ Len(new_lines) = Len(lines) - n

\* The brace count, read from declaration line n to the end of the file,
\* never comes back to zero once the first '{' has been read.
NeverCloses(ls, n) == ScanLines(ls, n, 0, FALSE, -1) = -1

\* C8: at the end of a stage whose input holds declarations of the target,
\* none of which ever closes, skip_until is unset, the stage has appended no
\* record and its output equals its input.
C8_UnclosedIsNoOp ==
    (/\ StageEnd
     /\ DeclIndices(lines, stage) # {}
     /\ \A d \in DeclIndices(lines, stage) : NeverCloses(lines, d))
    => (skip_until = -1 /\ StageRecords = <<>> /\ new_lines = lines)

\* C9: while a stage runs on an input none of whose lines holds the
\* declaration of its target, no step changes the audit list, and the step
\* that ends the stage leaves the line sequence as it was.
C9_NoDeclarationIsNoOp ==
    [][(pc = "fn" /\ DeclIndices(lines, stage) = {})
       => (/\ removed_lines' = removed_lines
           /\ (i = Len(lines) => lines' = lines))]_vars

C9_Witness ==
    /\ StageEnd
    /\ DeclIndices(lines, stage) = {}
    /\ Len(lines) >= 2
    /\ removed_lines # <<>>
    /\ new_lines = lines

\* The occurrences of the target from line n on, each taken with its end
\* line, an occurrence inside an earlier one not counted: <<d, e>> pairs,
\* e = -1 for an occurrence that never closes.
RECURSIVE Occurrences(_, _, _)
Occurrences(ls, n, st) ==
    IF n >= Len(ls) THEN <<>>
    ELSE IF Has(At(ls, n), DeclNeedle(st))
    THEN LET e == ScanLines(ls, n, 0, FALSE, -1)
         IN  IF e < 0 THEN <<<<n, e>>>>
             ELSE <<<<n, e>>>> \o Occurrences(ls, e + 1, st)
    ELSE Occurrences(ls, n + 1, st)

\* ls without the lines of the given occurrences.
RECURSIVE WithoutAll(_, _, _)
WithoutAll(ls, occ, p) ==
    IF p < 1 THEN ls
    ELSE WithoutAll(Without(ls, occ[p][1], occ[p][2]), occ, p - 1)

\* C10: at the end of a stage whose input holds the target more than once,
\* every occurrence closing, the output is the input without the lines of
\* all occurrences and the stage has appended one record per occurrence.
C10_EveryOccurrenceRemoved ==
    LET occ == Occurrences(lines, 0, stage)
    IN  (/\ StageEnd
         /\ Len(occ) >= 2
         /\ \A p \in 1..Len(occ) : occ[p][2] >= 0)
        => (/\ new_lines = WithoutAll(lines, occ, Len(occ))
            /\ Len(StageRecords) = Len(occ))

----------------------------------------------------------------------------
(* Properties of the region-removal passes (Steps 8 and 9).                *)

\* A region-removal loop has run and its output is not yet assigned.
RegionPassDone == pc \in {"step8_done", "step9_done"}

StartMarkers ==
    IF pc = "step8_done"
    THEN {"// 3. Save email content", "// 3b. Save critique reasoning",
          "// 3c. Save QA review"}
    ELSE {"Step 10: Generate email"}

EndMarkers ==
    IF pc = "step8_done"
    THEN {"// 4. Save client info", "// 3. Save client info"}
    ELSE {"// Add result", "const result = {"}

HoldsStart(line) == LineTable[line].has \cap StartMarkers # {}

HoldsEnd(line) == LineTable[line].has \cap EndMarkers # {}

\* ls without the lines whose 0-based index is in drop, order kept.
RECURSIVE Avoiding(_, _, _)
Avoiding(ls, drop, n) ==
    IF n >= Len(ls) THEN <<>>
    ELSE (IF n \in drop THEN <<>> ELSE <<At(ls, n)>>) \o Avoiding(ls, drop, n + 1)

\* Line n lies in a region that a later end-marker line closes: at or
\* after a start-marker line, before the next end-marker line.
InClosedRegion(ls, n) ==
    \E s \in 0..n : \E e \in (n + 1)..(Len(ls) - 1) :
        /\ HoldsStart(At(ls, s))
        /\ HoldsEnd(At(ls, e))
        /\ \A m \in s..n : ~HoldsEnd(At(ls, m))

\* Line n holds no end marker, and some start-marker line at or before it
\* has no end-marker line from itself up to n.
InOpenOrClosedRegion(ls, n) ==
    \E s \in 0..n :
        /\ HoldsStart(At(ls, s))
        /\ \A m \in s..n : ~HoldsEnd(At(ls, m))

Indices(ls) == 0..(Len(ls) - 1)

\* C4 as stated: after a region-removal loop over an input that has a
\* closed region (and no line holding both kinds of marker), the output is
\* the input without the lines of the closed regions; the end-marker lines
\* and every line outside a closed region are kept, in order.
C4_OnlyClosedRegionsDropped ==
    (/\ RegionPassDone
     /\ \E n \in Indices(lines) : InClosedRegion(lines, n)
     /\ \A n \in Indices(lines) : ~(HoldsStart(At(lines, n)) /\ HoldsEnd(At(lines, n))))
    => new_lines = Avoiding(lines, {n \in Indices(lines) : InClosedRegion(lines, n)}, 0)

\* C4 as amended: after a region-removal loop the output is the input
\* without the lines that hold no end marker and follow (or are) a
\* start-marker line with no end-marker line in between; a region that no
\* end marker closes runs to the end of the file.
C4_RegionsDroppedToEndMarkerOrEof ==
    RegionPassDone
    => new_lines =
          Avoiding(lines, {n \in Indices(lines) : InOpenOrClosedRegion(lines, n)}, 0)

\* A closed region, then a start marker that nothing closes, then a line.
C4_Witness ==
    /\ RegionPassDone
    /\ Len(lines) >= 4
    /\ InClosedRegion(lines, 0)
    /\ HoldsEnd(At(lines, 1))
    /\ HoldsStart(At(lines, 2))
    /\ ~HoldsStart(At(lines, 3)) /\ ~HoldsEnd(At(lines, 3))
    /\ new_lines = <<At(lines, 1)>>

----------------------------------------------------------------------------
(* The end-to-end scenario.                                                *)

\* C3: for a scenario file, in whatever environment the run reaches its
\* write, the sequence of lines Function-Stripper writes back is the
\* sequence of the file's other lines: the import line, the function, the
\* region (start marker and interior) and the field line are absent, every
\* other line is there once, unmodified and in its original order, and no
\* line is added.  A write that completes leaves analyzer.js with exactly
\* that sequence; one that raises leaves it as it was or cut short within
\* that sequence.
C3_ScenarioOutputIsOtherLines ==
    [][(scen.family = "scenario" /\ pc = "write")
       => /\ lines = scen.others
          /\ pc' = "summary" => file' = scen.others
          /\ pc' = "failed" => file' = file \/ file' \in CutShort(scen.others)]_vars

C3_Witness ==
    /\ pc = "done"
    /\ scen.family = "scenario"
    /\ Len(scen.others) >= 6
    /\ original_count = Len(scen.input)
    /\ Len(file) = original_count - 9
    /\ file = scen.others

----------------------------------------------------------------------------
(* Properties of Field-Injector.                                           *)

\* The text holds the marker string  source: '<source-name>'  of spec n,
\* wherever it stands: also at the end of a longer name.
ContainsMarker(content, n) ==
    \E p \in 1..Len(content) : HoldsSource(content[p], "'", Analyzers[n].source)

Outcome(r, n) ==
    LET at == {p \in 1..Len(report) : report[p].run = r /\ report[p].spec = n}
    IN  IF at = {} THEN "none" ELSE report[CHOOSE p \in at : TRUE].outcome

\* What the step on spec n hands to its write, when it writes.
HandedToWrite(n) == UpdatedContent(files[n].content, Analyzers[n])

\* C5 as stated: no step of a second run changes a file, whatever the first
\* run did; and whenever a run writes a file, the content it writes holds
\* the marker of its spec.
C5_SecondRunChangesNothing ==
    [][\A n \in SpecIndices :
         (ipc = "loop" /\ k = n)
         => /\ run = 2 => files' = files
            /\ files' # files => ContainsMarker(HandedToWrite(n), n)]_vars

\* C5, amended: a step of a second run changes a file only when the first
\* run raised an exception on that file and left it as it was before (it
\* could not read it, or not open it for writing); a file the first run
\* skipped, updated, found nothing to change in, emptied or wrote in part
\* is left by the second run as the first left it.  Whenever a run writes
\* a file, the content it hands to the write holds the marker of its spec,
\* and a write that completes leaves that content.
C5_SecondRunChangesOnlyUnwrittenFile ==
    [][\A n \in SpecIndices :
         (ipc = "loop" /\ k = n)
         => /\ (run = 2 /\ files' # files)
                => /\ Outcome(1, n) = "Error processing"
                   /\ files[n] = files0[n]
            /\ files' # files => ContainsMarker(HandedToWrite(n), n)
            /\ (\E r \in 1..2 : run = r /\
                    Outcome(r, n)' = "Updated - added source fields")
                => /\ files' # files
                   /\ files'[n].content = HandedToWrite(n)
                   /\ ContainsMarker(files'[n].content, n)]_vars

\* The first run updated the file under study and the second one, finding
\* the marker, skipped it.
C5_Witness ==
    /\ ipc = "done"
    /\ run = 2
    /\ Outcome(1, scen.focus) = "Updated - added source fields"
    /\ Outcome(2, scen.focus) = "Skipped - already has source fields"
    /\ files[scen.focus] # files0[scen.focus]
    /\ Len(files[scen.focus].content) = Len(files0[scen.focus].content) + 2

\* C6: a file that held the marker string of its spec before the first
\* run, be it at the end of a longer name, is at every moment of both runs
\* what it was, whatever fails.
C6_MarkedFileUntouched ==
    \A n \in DOMAIN files :
        (files0[n].exists /\ ContainsMarker(files0[n].content, n))
        => files[n] = files0[n]

\* The file under study holds its marker only at the end of a longer name,
\* and a block the substitutions would change, and the run has passed it.
C6_Witness ==
    /\ ipc = "done"
    /\ files0[scen.focus].exists
    /\ ContainsMarker(files0[scen.focus].content, scen.focus)
    /\ \A p \in 1..Len(files0[scen.focus].content) :
           files0[scen.focus].content[p].kind = "field"
           => files0[scen.focus].content[p].name # "source"
    /\ UpdatedContent(files0[scen.focus].content, Analyzers[scen.focus])
           # files0[scen.focus].content
    /\ Outcome(run, scen.focus) = "Skipped - already has source fields"
    /\ files[scen.focus] = files0[scen.focus]

\* What one run makes of a file when its spec does not fail.
RunAlone(f, n) ==
    IF ~f.exists \/ ContainsMarker(f.content, n) THEN f
    ELSE [f EXCEPT !.content = UpdatedContent(f.content, Analyzers[n])]

Failed(outcome) == outcome \in {"Error processing", "Skipped - file not found"}

\* C7: when the first run has ended, it has reported each of the eight
\* specs once, in list order, and then Done!, whichever of them failed; and
\* every file whose spec did not fail is what the run makes of it alone.
C7_FailureDoesNotStopTheRun ==
    (ipc = "done" /\ run = 1)
    => /\ Len(report) = Len(Analyzers) + 1
       /\ \A n \in SpecIndices : report[n].spec = n
       /\ report[Len(Analyzers) + 1].outcome = "Done!"
       /\ \A n \in SpecIndices :
              ~Failed(report[n].outcome) => files[n] = RunAlone(files0[n], n)

\* A spec before the last failed with an exception and the one after it
\* was updated.
C7_Witness ==
    /\ ipc = "done"
    /\ run = 1
    /\ \E n \in SpecIndices :
           /\ n < Len(Analyzers)
           /\ Outcome(1, n) = "Error processing"
           /\ Outcome(1, n + 1) = "Updated - added source fields"
           /\ files[n + 1] # files0[n + 1]
====
